---------------------------- MODULE Spec2Model ----------------------------
(***************************************************************************)
(* Word-frequency colouring of the first lines of declaration.txt          *)
(* (src/app.js).  A JavaScript string is a sequence of characters, each    *)
(* character a one-element TLA+ string; two non-ASCII characters whose     *)
(* lower-case form is ASCII are written by code point ("U+212A", the       *)
(* Kelvin sign, and "U+0130", capital I with dot above).  The escape       *)
(* sequences chalk puts around a word are single elements as well.         *)
(***************************************************************************)
EXTENDS Integers, Sequences, FiniteSets, TLC

VARIABLES
    file,       \* text of declaration.txt in the working directory
    pc,         \* position of the running call
    content,    \* the string the call works on
    wordCount,  \* the frequency table (a JavaScript object)
    lines,      \* printColoredLines: the lines kept by slice(0, 15)
    i,          \* printColoredLines: number of lines already handled
    out,        \* the strings given to console.log, in order
    splits,     \* number of line.split(/\W+/) calls made so far
    reads,      \* number of fs.readFileSync calls made so far
    thrown,     \* the exception that left processFile, or "none"
    call,       \* exported function called by the test suite, with arguments
    result      \* value returned by a colorWord call

vars == <<file, pc, content, wordCount, lines, i, out, splits, reads, thrown,
          call, result>>

----------------------------------------------------------------------------
(* Characters *)

NL == "\n"
KELVIN == "U+212A"
IDOT == "U+0130"
COMBDOT == "U+0307"

UpperSeq == <<"A","B","C","D","E","F","G","H","I","J","K","L","M",
              "N","O","P","Q","R","S","T","U","V","W","X","Y","Z">>
LowerSeq == <<"a","b","c","d","e","f","g","h","i","j","k","l","m",
              "n","o","p","q","r","s","t","u","v","w","x","y","z">>
Digits == {"0","1","2","3","4","5","6","7","8","9"}

Range(s) == {s[k] : k \in DOMAIN s}

\* \w of a regular expression without the u and i flags: [A-Za-z0-9_]
IsWordChar(c) == c \in Range(UpperSeq) \cup Range(LowerSeq) \cup Digits \cup {"_"}

\* String.prototype.toLowerCase on one character (Unicode default case
\* conversion): the result is a string, not always of length 1.
LowerChar(c) ==
    IF c \in Range(UpperSeq)
    THEN <<LowerSeq[CHOOSE k \in DOMAIN UpperSeq : UpperSeq[k] = c]>>
    ELSE IF c = KELVIN THEN <<"k">>
    ELSE IF c = IDOT THEN <<"i", COMBDOT>>
    ELSE <<c>>

\* s.toLowerCase(): the lower-case forms of the characters, concatenated
\* (evaluated by halves).
RECURSIVE ToLowerCase(_)
ToLowerCase(s) ==
    IF s = <<>> THEN <<>>
    ELSE IF Len(s) = 1 THEN LowerChar(s[1])
    ELSE ToLowerCase(SubSeq(s, 1, Len(s) \div 2))
         \o ToLowerCase(SubSeq(s, Len(s) \div 2 + 1, Len(s)))

----------------------------------------------------------------------------
(* String.prototype.split and Array.prototype.filter, join *)

\* The pieces of s[lo..hi] between its separator characters, sep[k] telling
\* whether s[k] is one: empty pieces kept, so that n separators leave n + 1
\* pieces (evaluated by halves: the last piece of the left half continues in
\* the first piece of the right half).
RECURSIVE SplitRange(_, _, _, _)
SplitRange(s, sep, lo, hi) ==
    IF lo > hi THEN << <<>> >>
    ELSE IF lo = hi THEN (IF sep[lo] THEN << <<>>, <<>> >> ELSE << <<s[lo]>> >>)
    ELSE LET l == SplitRange(s, sep, lo, (lo + hi) \div 2)
             r == SplitRange(s, sep, (lo + hi) \div 2 + 1, hi)
         IN  SubSeq(l, 1, Len(l) - 1) \o << l[Len(l)] \o r[1] >> \o SubSeq(r, 2, Len(r))

\* s.split('\n'): the pieces between the newlines, empty pieces kept; a
\* string without a newline (the empty string too) is its own only piece.
SplitLines(s) == SplitRange(s, [k \in 1..Len(s) |-> s[k] = NL], 1, Len(s))

\* s.split(/\W+/): the separators are the maximal runs of non-word
\* characters, so no empty piece lies between two characters of one run; a
\* run at either end leaves one empty piece there, and a string without a
\* non-word character (the empty string too) is its own only piece.
SplitNonWord(s) ==
    LET each == SplitRange(s, [k \in 1..Len(s) |-> ~IsWordChar(s[k])], 1, Len(s))
    IN  IF Len(each) = 1 THEN each
        ELSE <<each[1]>>
             \o SelectSeq(SubSeq(each, 2, Len(each) - 1), LAMBDA w : w # <<>>)
             \o <<each[Len(each)]>>

\* .filter(Boolean) on an array of strings: the empty string is falsy.
FilterBoolean(a) == SelectSeq(a, LAMBDA w : w # <<>>)

\* a.join(' ')
RECURSIVE JoinSpace(_)
JoinSpace(a) ==
    IF a = <<>> THEN <<>>
    ELSE IF Len(a) = 1 THEN a[1]
    ELSE a[1] \o <<" ">> \o JoinSpace(Tail(a))

\* a.slice(0, n)
SliceFirst(a, n) == SubSeq(a, 1, IF Len(a) < n THEN Len(a) ELSE n)

----------------------------------------------------------------------------
(* JavaScript values and objects *)

\* A value: t is its type; n the number (or, for a string, how many "1" have
\* been appended to s); s the text of a string, or what a non-number is.
Num(n) == [t |-> "number", n |-> n, s |-> ""]
NaN == [t |-> "number", n |-> 0, s |-> "NaN"]
Undefined == [t |-> "undefined", n |-> 0, s |-> ""]
Str(s, n) == [t |-> "string", n |-> n, s |-> s]
ObjectFunction == [t |-> "function", n |-> 0, s |-> "function Object() { [native code] }"]
ObjectPrototypeValue == [t |-> "object", n |-> 0, s |-> "[object Object]"]
SomeFunction == [t |-> "function", n |-> 0, s |-> "function () { [native code] }"]

IsNumber(v) == v.t = "number" /\ v.s = ""


\* ToBoolean, as used by ||
Truthy(v) ==
    CASE v.t = "number" -> v.s = "" /\ v.n # 0
      [] v.t = "undefined" -> FALSE
      [] v.t = "string" -> v.s # "" \/ v.n > 0
      [] OTHER -> TRUE

\* v + 1: numeric addition for a number, and string concatenation of "1" once
\* either operand's primitive is a string (a function or an object is first
\* converted to its string).
Plus1(v) ==
    CASE v.t = "number" -> IF v.s = "" THEN Num(v.n + 1) ELSE NaN
      [] v.t = "undefined" -> NaN
      [] v.t = "string" -> Str(v.s, v.n + 1)
      [] OTHER -> Str(v.s, 1)

\* count === 1
StrictEquals1(v) == IsNumber(v) /\ v.n = 1

\* count >= k and count <= k: the operand is converted to a number; NaN (from
\* undefined, from an object and from every string that is not a numeral)
\* compares false.
GreaterEq(v, k) == IsNumber(v) /\ v.n >= k
LessEq(v, k) == IsNumber(v) /\ v.n <= k

CONSTRUCTOR == <<"c","o","n","s","t","r","u","c","t","o","r">>
PROTO == <<"_","_","p","r","o","t","o","_","_">>
TOSTRING == <<"t","o","S","t","r","i","n","g">>
VALUEOF == <<"v","a","l","u","e","O","f">>

\* What Object.prototype answers for a key an object does not own.
PrototypeGet(key) ==
    IF key = CONSTRUCTOR THEN ObjectFunction
    ELSE IF key = PROTO THEN ObjectPrototypeValue
    ELSE IF key \in {TOSTRING, VALUEOF} THEN SomeFunction
    ELSE Undefined

\* An object created by {} is the function from its own keys to their values.
EmptyObject == [k \in {} |-> Undefined]

\* obj[key]
Get(obj, key) == IF key \in DOMAIN obj THEN obj[key] ELSE PrototypeGet(key)

\* obj[key] = v.  __proto__ is an accessor of Object.prototype whose setter
\* ignores a value that is neither an object nor null; every other key
\* becomes (or stays) an own property.
Put(obj, key, v) ==
    IF key = PROTO /\ key \notin DOMAIN obj
    THEN obj
    ELSE (key :> v) @@ obj

----------------------------------------------------------------------------
(* getWordCounts *)

\* wordCount[word] = (wordCount[word] || 0) + 1;
CountWord(obj, word) ==
    Put(obj, word, Plus1(IF Truthy(Get(obj, word)) THEN Get(obj, word) ELSE Num(0)))

\* for (const word of words) ...: the words in order, first to last.  The
\* table after the first half of the words is computed (the test on its
\* domain makes TLC evaluate it there) before the second half is counted.
RECURSIVE CountLoop(_, _)
CountLoop(words, obj) ==
    IF words = <<>> THEN obj
    ELSE IF Len(words) = 1 THEN CountWord(obj, words[1])
    ELSE LET half == CountLoop(SubSeq(words, 1, Len(words) \div 2), obj)
         IN  IF DOMAIN half = {}
             THEN CountLoop(SubSeq(words, Len(words) \div 2 + 1, Len(words)), half)
             ELSE CountLoop(SubSeq(words, Len(words) \div 2 + 1, Len(words)), half)

\* content.toLowerCase().split(/\W+/).filter(Boolean)
WordsOf(s) == FilterBoolean(SplitNonWord(ToLowerCase(s)))

GetWordCounts(s) == CountLoop(WordsOf(s), EmptyObject)

----------------------------------------------------------------------------
(* colorWord *)

BLUE == "ESC[34m"
GREEN == "ESC[32m"
RED == "ESC[31m"
CLOSE == "ESC[39m"

ChalkBlue(word) == <<BLUE>> \o word \o <<CLOSE>>
ChalkGreen(word) == <<GREEN>> \o word \o <<CLOSE>>
ChalkRed(word) == <<RED>> \o word \o <<CLOSE>>

\* colorWord with the upper boundary of the green range excluded
ColorWordExclusiveUpper(word, count) ==
    IF StrictEquals1(count) THEN ChalkBlue(word)
    ELSE IF GreaterEq(count, 2) /\ LessEq(count, 4) THEN ChalkGreen(word)
    ELSE ChalkRed(word)

ColorWord(word, count) ==
    IF StrictEquals1(count) THEN ChalkBlue(word)
    ELSE IF GreaterEq(count, 2) /\ LessEq(count, 5) THEN ChalkGreen(word)
    ELSE ChalkRed(word)

----------------------------------------------------------------------------
(* printColoredLines *)

DisplayLimit == 15

\* the slice taking one line too many
LinesOfOneMore(s) == SliceFirst(SplitLines(s), DisplayLimit + 1)

\* the split losing the empty line after a final newline
LinesOfDropTrailing(s) ==
    LET all == SplitLines(s)
    IN  SliceFirst(IF Len(all) > 1 /\ all[Len(all)] = <<>>
                   THEN SubSeq(all, 1, Len(all) - 1) ELSE all, DisplayLimit)

\* content.split('\n').slice(0, 15)
LinesOf(s) == SliceFirst(SplitLines(s), DisplayLimit)

\* line.split(/\W+/).filter(Boolean)
LineWords(line) == FilterBoolean(SplitNonWord(line))

\* the lookup made with the word as written
LookupCountAsWritten(table, word) == Get(table, word)

\* wordCount[word.toLowerCase()]
LookupCount(table, word) == Get(table, ToLowerCase(word))

\* .map(word => colorWord(word, wordCount[word.toLowerCase()]))
ColoredWords(line, table) ==
    [k \in 1..Len(LineWords(line)) |->
        ColorWord(LineWords(line)[k], LookupCount(table, LineWords(line)[k]))]

\* the line without the blank appended
ColoredLineNoTrailing(line, table) == JoinSpace(ColoredWords(line, table))

\* ... .join(' ') + ' '
ColoredLine(line, table) == JoinSpace(ColoredWords(line, table)) \o <<" ">>

----------------------------------------------------------------------------
(* Inputs *)

MaxLen == 4
MaxLines == 17
MaxCount == 6

SeqsUpTo(S, n) == UNION {[1..k -> S] : k \in 0..n}

RECURSIVE JoinNL(_)
JoinNL(a) ==
    IF a = <<>> THEN <<>>
    ELSE IF Len(a) = 1 THEN a[1]
    ELSE a[1] \o <<NL>> \o JoinNL(Tail(a))

\* Every text of at most MaxLen characters over a lower-case letter, an
\* upper-case letter, a blank, a newline and the Kelvin sign.
ShortContents == SeqsUpTo({"a", "A", " ", NL, KELVIN}, MaxLen)

HELLO == <<"H","e","l","l","o",","," ","h","e","l","l","o"," ",
           "w","o","r","l","d","!">>
CATDOGCAT == <<"c","a","t"," ","d","o","g"," ","c","a","t">>

NamedContents ==
    { HELLO, CATDOGCAT,
      CONSTRUCTOR,
      <<"a"," ">> \o CONSTRUCTOR \o <<" ","C","o","n","s","t","r","u","c","t","o","r",NL>>,
      PROTO \o <<" ","a">>,
      <<"a","_","1"," ","A","_","1",",","x","9",NL,"_",NL>>,
      <<"a",IDOT,"b"," ","i">>,
      <<"C","a","t","\r",NL,"c","a","t","-","d","o","g",NL>> }

\* Files of up to MaxLines lines: every line is a, except lines p and q,
\* which are b; with and without a newline after the last line.
LineSet == { <<>>, <<"a">>, <<"a"," ","A",","," ","a">> }

ManyLineContents ==
    { JoinNL([k \in 1..n |-> IF k \in {p, q} THEN b ELSE a]) \o e :
        n \in 1..MaxLines, a \in LineSet, b \in LineSet,
        p \in {1, DisplayLimit}, q \in DisplayLimit..MaxLines,
        e \in {<<>>, <<NL>>} }

FileContents == ShortContents \cup NamedContents \cup ManyLineContents

\* Arguments the test suite passes to the exported functions.
TestWords == { <<"c","a","t">>, <<"C","a","t">>, <<"d","o","g">> }

TestCounts ==
    {Num(n) : n \in -1..MaxCount} \cup
    {NaN, Undefined, Str(ObjectFunction.s, 1), ObjectPrototypeValue}

TableValues == {Num(n) : n \in 0..MaxCount} \cup {Undefined}

\* Object literals over the keys cat, Cat and dog; a key mapped to Undefined
\* here is a key the literal does not have.
TestTables ==
    { [k \in {w \in TestWords : f[w] # Undefined} |-> f[k]] :
        f \in [TestWords -> TableValues] }

TestContents ==
    { CATDOGCAT, <<"C","a","t">>, <<"D","o","g"," ","c","a","t",NL>>,
      <<"c","a","t",NL,NL,"t","o","S","t","r","i","n","g">> }

----------------------------------------------------------------------------
(* processFile, run when the module is the program's entry point *)

NoCall == [fn |-> "none", word |-> <<>>, count |-> Undefined]

Init ==
    /\ file \in FileContents
    /\ pc = "start"
    /\ content = <<>>
    /\ wordCount = EmptyObject
    /\ lines = <<>>
    /\ i = 0
    /\ out = <<>>
    /\ splits = 0
    /\ reads = 0
    /\ thrown = "none"
    /\ call = NoCall
    /\ result = <<>>

\* const content = readFileContent();  -- readFileSync returns the text
ReadFileContent ==
    /\ pc = "start"
    /\ content' = file
    /\ reads' = reads + 1
    /\ pc' = "read"
    /\ UNCHANGED <<file, wordCount, lines, i, out, splits, thrown, call, result>>

\* the exception swallowed and the pipeline continued on an empty text
ReadFileContentSwallowed ==
    /\ pc = "start"
    /\ reads' = reads + 1
    /\ content' = <<>>
    /\ pc' = "read"
    /\ UNCHANGED <<file, wordCount, lines, i, out, splits, thrown, call, result>>

\* readFileSync throws (no such file, no permission): nothing in processFile
\* or at the top level catches it.
ReadFileContentThrows ==
    /\ pc = "start"
    /\ reads' = reads + 1
    /\ thrown' = "Error: readFileSync"
    /\ pc' = "failed"
    /\ UNCHANGED <<file, content, wordCount, lines, i, out, splits, call, result>>

\* const wordCount = getWordCounts(content);
CountWords ==
    /\ pc = "read"
    /\ wordCount' = GetWordCounts(content)
    /\ pc' = "counted"
    /\ UNCHANGED <<file, content, lines, i, out, splits, reads, thrown, call, result>>

\* printColoredLines(content, wordCount): entry, up to the for loop
PrintColoredLines ==
    /\ pc = "counted"
    /\ lines' = LinesOf(content)
    /\ i' = 0
    /\ pc' = "printing"
    /\ UNCHANGED <<file, content, wordCount, out, splits, reads, thrown, call, result>>

\* One iteration of the for loop; after the last one the function returns.
PrintLine ==
    /\ pc = "printing"
    /\ i < Len(lines)
    /\ out' = Append(out, ColoredLine(lines[i + 1], wordCount))
    /\ splits' = splits + 1
    /\ i' = i + 1
    /\ pc' = IF i + 1 < Len(lines) THEN "printing" ELSE "done"
    /\ UNCHANGED <<file, content, wordCount, lines, reads, thrown, call, result>>

Next ==
    \/ ReadFileContent
    \/ ReadFileContentThrows
    \/ CountWords
    \/ PrintColoredLines
    \/ PrintLine

Spec == Init /\ [][Next]_vars

----------------------------------------------------------------------------
(* The exported functions, called one at a time by the test suite *)

InitExports ==
    /\ file = <<>>
    /\ pc = "idle"
    /\ content = <<>>
    /\ wordCount = EmptyObject
    /\ lines = <<>>
    /\ i = 0
    /\ out = <<>>
    /\ splits = 0
    /\ reads = 0
    /\ thrown = "none"
    /\ call = NoCall
    /\ result = <<>>

\* colorWord(word, count)
CallColorWord ==
    /\ pc = "idle"
    /\ \E w \in TestWords, c \in TestCounts :
        /\ call' = [fn |-> "colorWord", word |-> w, count |-> c]
        /\ result' = ColorWord(w, c)
    /\ pc' = "done"
    /\ UNCHANGED <<file, content, wordCount, lines, i, out, splits, reads, thrown>>

\* getWordCounts(content)
CallGetWordCounts ==
    /\ pc = "idle"
    /\ \E s \in TestContents \cup NamedContents :
        /\ content' = s
        /\ wordCount' = GetWordCounts(s)
    /\ call' = [NoCall EXCEPT !.fn = "getWordCounts"]
    /\ pc' = "done"
    /\ UNCHANGED <<file, lines, i, out, splits, reads, thrown, result>>

\* printColoredLines(content, wordCount)
CallPrintColoredLines ==
    /\ pc = "idle"
    /\ \E s \in TestContents, t \in TestTables :
        /\ content' = s
        /\ wordCount' = t
        /\ lines' = LinesOf(s)
    /\ i' = 0
    /\ call' = [NoCall EXCEPT !.fn = "printColoredLines"]
    /\ pc' = "printing"
    /\ UNCHANGED <<file, out, splits, reads, thrown, result>>

NextExports ==
    \/ CallColorWord
    \/ CallGetWordCounts
    \/ CallPrintColoredLines
    \/ PrintLine

SpecExports == InitExports /\ [][NextExports]_vars

----------------------------------------------------------------------------
(* Vocabulary of the properties *)

Min(a, b) == IF a < b THEN a ELSE b

\* The tokens of a text: its maximal runs of word characters, in order.
RECURSIVE TokensFrom(_, _, _)
TokensFrom(s, k, cur) ==
    IF k > Len(s) THEN (IF cur = <<>> THEN <<>> ELSE <<cur>>)
    ELSE IF IsWordChar(s[k]) THEN TokensFrom(s, k + 1, Append(cur, s[k]))
    ELSE (IF cur = <<>> THEN <<>> ELSE <<cur>>) \o TokensFrom(s, k + 1, <<>>)

TokensOf(s) == TokensFrom(s, 1, <<>>)

\* Number of tokens of a text: the positions where a run of word characters starts.
TokenCount(s) ==
    Cardinality({k \in 1..Len(s) : IsWordChar(s[k]) /\ (k = 1 \/ ~IsWordChar(s[k - 1]))})

\* Number of lines of a text: one more than its newlines.
LineCount(s) == Cardinality({k \in 1..Len(s) : s[k] = NL}) + 1

RECURSIVE SumOf(_, _)
SumOf(f, S) ==
    IF S = {} THEN 0
    ELSE LET k == CHOOSE x \in S : TRUE IN f[k].n + SumOf(f, S \ {k})

\* The three buckets of section 3, as the colour that marks them.
Bucket(v) ==
    IF IsNumber(v) /\ v.n = 1 THEN BLUE
    ELSE IF IsNumber(v) /\ v.n >= 2 /\ v.n <= 5 THEN GREEN
    ELSE RED

Wrapped(colour, word) == <<colour>> \o word \o <<CLOSE>>

IsMarker(c) == c \in {BLUE, GREEN, RED, CLOSE}

StripColor(s) == SelectSeq(s, LAMBDA c : ~IsMarker(c))

RECURSIVE SpaceJoined(_)
SpaceJoined(a) ==
    IF a = <<>> THEN <<>>
    ELSE IF Len(a) = 1 THEN a[1]
    ELSE a[1] \o <<" ">> \o SpaceJoined(Tail(a))

Counted == pc \in {"counted", "printing", "done"}

\* Number of tokens of text s that equal token t when case is ignored.
Occurrences(t, s) ==
    LET ws == FilterBoolean(SplitNonWord(s))
    IN  Cardinality({k \in 1..Len(ws) : ToLowerCase(ws[k]) = ToLowerCase(t)})

----------------------------------------------------------------------------
(* Properties *)

\* C1: after getWordCounts(content) every entry of the table is a number
\* >= 1 and the counts add up to the number of tokens of content.
C1_PositiveCountsSumToTokens ==
    Counted =>
        /\ \A w \in DOMAIN wordCount : IsNumber(wordCount[w]) /\ wordCount[w].n >= 1
        /\ SumOf(wordCount, DOMAIN wordCount) = TokenCount(content)

\* C2: colorWord(word, count) returns the word unchanged inside the blue
\* marker when count is 1, inside the green marker when 2 <= count <= 5, and
\* inside the red marker for every other count (more than 5, 0, negative,
\* NaN, undefined, not a number at all).
C2_ColorWordBoundaries ==
    call.fn = "colorWord" =>
        /\ result = Wrapped(Bucket(call.count), call.word)
        /\ result \in {Wrapped(c, call.word) : c \in {BLUE, GREEN, RED}}

C2_Witness ==
    /\ call.fn = "colorWord"
    /\ call.count = Undefined
    /\ result = Wrapped(RED, call.word)

\* C3: printColoredLines emits the renderings of the first lines of content,
\* in order, never more than 15 of them, tokenizing one line per output;
\* when it returns it has emitted min(n, 15) outputs for n lines.
C3_FirstFifteenLinesInOrder ==
    LET all == SplitLines(content)
    IN  /\ Len(out) <= DisplayLimit
        /\ splits = Len(out)
        /\ Len(out) <= LineCount(content)
        /\ \A k \in 1..Len(out) : out[k] = ColoredLine(all[k], wordCount)
        /\ pc = "done" => Len(out) = Min(LineCount(content), DisplayLimit)

C3_Witness ==
    /\ pc = "done"
    /\ LineCount(content) > DisplayLimit + 1
    /\ Len(out) = DisplayLimit
    /\ out[DisplayLimit] # out[1]

\* C4: every output, with the colour markers removed, is the tokens of its
\* line in their case and order, joined by single blanks, followed by exactly
\* one blank.
C4_StrippedOutputIsJoinedTokens ==
    LET all == SplitLines(content)
    IN  \A k \in 1..Len(out) :
            /\ StripColor(out[k]) = SpaceJoined(TokensOf(all[k])) \o <<" ">>
            /\ out[k][Len(out[k])] = " "
            /\ Len(out[k]) > 1 => out[k][Len(out[k]) - 1] # " "

C4_Witness ==
    /\ pc = "done"
    /\ content = <<" ", "A", NL, "a">>
    /\ Len(out) = 2

\* C5: every output is, for the tokens t of its line in order,
\* colorWord(t, T[lowercase(t)]) joined by blanks, T being the table given:
\* the colour comes from the entry of the lower-cased token, the text is the
\* token as written.
C5_ColourOfLowercasedKey ==
    \A k \in 1..Len(out) :
        LET ts == TokensOf(lines[k])
        IN  out[k] =
                SpaceJoined([m \in 1..Len(ts) |->
                    Wrapped(Bucket(Get(wordCount, ToLowerCase(ts[m]))), ts[m])])
                \o <<" ">>

C5_Witness ==
    /\ call.fn = "printColoredLines"
    /\ content = <<"C","a","t">>
    /\ <<"C","a","t">> \in DOMAIN wordCount
    /\ wordCount[<<"C","a","t">>] = Num(6)
    /\ <<"c","a","t">> \in DOMAIN wordCount
    /\ wordCount[<<"c","a","t">>] = Num(2)
    /\ out = <<Wrapped(GREEN, <<"C","a","t">>) \o <<" ">>>>

\* C6 as stated: a displayed line without tokens is emitted as the empty
\* string.
C6_TokenlessLineIsEmpty ==
    LET all == SplitLines(content)
    IN  \A k \in 1..Len(out) : TokensOf(all[k]) = <<>> => out[k] = <<>>

\* C6 as amended: a displayed line without tokens is emitted as one blank and
\* nothing else; and when content ends with a newline and has at most 15
\* lines counting the empty one after that newline, that empty line is
\* emitted, as one blank, as the last output.
C6_TokenlessLineIsOneBlank ==
    LET all == SplitLines(content)
    IN  /\ \A k \in 1..Len(out) : TokensOf(all[k]) = <<>> => out[k] = <<" ">>
        /\ ( /\ pc = "done"
             /\ content # <<>>
             /\ content[Len(content)] = NL
             /\ LineCount(content) <= DisplayLimit )
           => /\ Len(out) = LineCount(content)
              /\ out[Len(out)] = <<" ">>

C6_Witness ==
    /\ pc = "done"
    /\ content # <<>>
    /\ content[Len(content)] = NL
    /\ LineCount(content) = DisplayLimit
    /\ Len(out) = DisplayLimit
    /\ out[DisplayLimit] = <<" ">>
    /\ out[1] # <<" ">>

\* C7: in processFile every displayed token carries the colour of the bucket
\* of the number of tokens of the whole file that equal it when case is
\* ignored.
C7_ColourByOccurrencesInWholeFile ==
    LET all == SplitLines(content)
    IN  \A k \in 1..Len(out) :
            LET ts == TokensOf(all[k])
            IN  out[k] =
                    SpaceJoined([m \in 1..Len(ts) |->
                        Wrapped(Bucket(Num(Occurrences(ts[m], content))), ts[m])])
                    \o <<" ">>

\* C8: processFile reads the file once; counting starts only after the read
\* has returned the file's text, the first line is emitted only after the
\* table of that text has been built, and a run in which the read throws
\* ends with the exception and with nothing counted and nothing emitted.
C8_ReadThenCountThenPrint ==
    /\ reads <= 1
    /\ pc = "start" => reads = 0 /\ out = <<>> /\ wordCount = EmptyObject
    /\ pc # "start" => reads = 1
    /\ pc \in {"read", "counted", "printing", "done"} => content = file /\ thrown = "none"
    /\ pc = "read" => out = <<>> /\ wordCount = EmptyObject
    /\ out # <<>> => pc \in {"printing", "done"}
    /\ pc \in {"counted", "printing", "done"} => wordCount = GetWordCounts(file)
    /\ thrown # "none" <=> pc = "failed"
    /\ pc = "failed" =>
          /\ out = <<>> /\ splits = 0 /\ content = <<>>
          /\ wordCount = EmptyObject /\ lines = <<>>
          /\ ~ENABLED Next

C8_Witness ==
    /\ pc = "failed"
    /\ thrown # "none"
    /\ reads = 1
    /\ out = <<>>
    /\ TokenCount(file) > 0

\* C9: the table getWordCounts builds is the table the same counting loop
\* builds from the tokens of the original content, each lower-cased.
C9_LowercaseFirstIsTokenizeFirst ==
    Counted =>
        LET ws == FilterBoolean(SplitNonWord(content))
        IN  wordCount = CountLoop([k \in 1..Len(ws) |-> ToLowerCase(ws[k])], EmptyObject)

\* C10: in processFile every displayed token has, under its lower-case form,
\* an entry of the table that is a number at least the number of its
\* occurrences in the displayed lines, and it is red only with a count > 5.
C10_DisplayedTokensAreCounted ==
    LET all == SplitLines(content)
        shown == JoinNL(SliceFirst(all, DisplayLimit))
    IN  \A k \in 1..Len(out) :
            LET ts == TokensOf(all[k])
            IN  \A m \in 1..Len(ts) :
                    LET key == ToLowerCase(ts[m])
                    IN  /\ key \in DOMAIN wordCount
                        /\ IsNumber(wordCount[key])
                        /\ wordCount[key].n >= Occurrences(ts[m], shown)
                        /\ wordCount[key].n <= 5 =>
                              Bucket(Get(wordCount, key)) # RED

====
